---- MODULE Spec2Model ----
(***************************************************************************)
(* The snake simulation of src/game.js: the game state (snake, direction,  *)
(* inputQueue, food, isPaused, isGameOver, score, highScore,               *)
(* movesPerSecond, the centre message) and the handlers that change it     *)
(* (resetGame, placeFood, enqueueDirectionFromKey, tick, gameOver,         *)
(* togglePause, the keydown and restart-button listeners), and the frame   *)
(* callback animate with its accumulator.                                  *)
(* The grid and the retry cap of placeFood are scaled down; the speed      *)
(* constants are the program's. The definitions whose names end in Full    *)
(* are the same code on the program's own 24 x 24 grid.                    *)
(***************************************************************************)
EXTENDS Integers, Sequences, FiniteSets

\* ---- bounds of the model ------------------------------------------------
\* side of the grid (game.js:13 has 24)
GRID_CELLS == 4
\* retry cap of placeFood (game.js:188 has 10000)
MAX_TRIES == 2
\* ticks that eat are explored while score < MaxScore
MaxScore == 1
\* the stored high score read at load is drawn from 0..MaxStoredHighScore
MaxStoredHighScore == 1
\* the speed curve is also evaluated on every score in 0..MaxSpeedScore
MaxSpeedScore == 40
\* frames of the frame-driven play begin while score < MaxDriveScore
MaxDriveScore == 33

\* ---- program constants --------------------------------------------------
START_LENGTH == 4
BASE_SPEED == 6
MAX_SPEED == 14

VARIABLES snake, direction, inputQueue, food, isPaused, isGameOver,
          score, highScore, movesPerSecond, centerMsg,
          accumulator, stepInterval, inFrame

\* the game state
vars == <<snake, direction, inputQueue, food, isPaused, isGameOver,
          score, highScore, movesPerSecond, centerMsg>>

\* the state of the frame callback: accumulator, the stepInterval of the
\* frame that runs or ran last, and whether animate is inside its loop
driver == <<accumulator, stepInterval, inFrame>>

allVars == <<vars, driver>>

\* ---- values -------------------------------------------------------------
Cell(cx, cy) == [x |-> cx, y |-> cy]

Cells == {Cell(cx, cy) : cx \in 0..(GRID_CELLS - 1), cy \in 0..(GRID_CELLS - 1)}

Directions == {Cell(0, -1), Cell(0, 1), Cell(-1, 0), Cell(1, 0)}

\* the key codes the keydown listener tells apart, and one it ignores
KeyCodes == {"ArrowUp", "KeyW", "ArrowDown", "KeyS", "ArrowLeft", "KeyA",
             "ArrowRight", "KeyD", "Space", "KeyP", "KeyR", "KeyX"}

\* what the centre overlay shows; HIDDEN when it carries the class 'hidden'
HIDDEN == "hidden"

Min(a, b) == IF a <= b THEN a ELSE b

Max(a, b) == IF a >= b THEN a ELSE b

\* snake.some(s => s.x === c.x && s.y === c.y)
some(s, c) == \E i \in 1..Len(s) : s[i].x = c.x /\ s[i].y = c.y

\* ---- resetGame ----------------------------------------------------------
startX == (GRID_CELLS \div 2) - (START_LENGTH \div 2)

startY == GRID_CELLS \div 2

startSnake == [i \in 1..START_LENGTH |-> Cell(startX + (i - 1), startY)]

\* ---- placeFood ----------------------------------------------------------
\* The cells the do-while loop can end on when `tries` draws have been made
\* and every one of them hit the snake (the cells of `taken`): a draw off
\* the snake ends the loop, a draw on the snake ends it only when tries
\* reaches the cap.
RECURSIVE placeFoodFrom(_, _, _)
placeFoodFrom(free, taken, tries) ==
  LET t == tries + 1
  IN  free \cup (IF t < MAX_TRIES
                 THEN (IF taken = {} THEN {} ELSE placeFoodFrom(free, taken, t))
                 ELSE taken)

placeFood(s) ==
  LET taken == {s[i] : i \in 1..Len(s)}
  IN  placeFoodFrom(Cells \ taken, Cells \cap taken, 0)

\* where placeFood() can put the food over the start snake
startFood == placeFood(startSnake)

setHighScoreOverwrite(value) == value

setHighScore(value) == Max(highScore, value)

resetGame ==
  /\ snake' = startSnake
  /\ direction' = Cell(1, 0)
  /\ inputQueue' = <<>>
  /\ isPaused' = FALSE
  /\ isGameOver' = FALSE
  /\ score' = 0
  /\ movesPerSecond' = BASE_SPEED
  /\ food' \in startFood
  /\ centerMsg' = HIDDEN
  /\ UNCHANGED highScore

\* ---- input --------------------------------------------------------------
willReverse(curr, next) == curr.x + next.x = 0 /\ curr.y + next.y = 0

\* the direction a key code stands for, Cell(0, 0) standing for null
keyDirection(code) ==
  IF code = "ArrowUp" \/ code = "KeyW" THEN Cell(0, -1)
  ELSE IF code = "ArrowDown" \/ code = "KeyS" THEN Cell(0, 1)
  ELSE IF code = "ArrowLeft" \/ code = "KeyA" THEN Cell(-1, 0)
  ELSE IF code = "ArrowRight" \/ code = "KeyD" THEN Cell(1, 0)
  ELSE Cell(0, 0)

\* inputQueue after enqueueDirectionFromKey(code)
enqueuedNoReverseCheck(code) ==
  LET next == keyDirection(code)
  IN  IF next # Cell(0, 0) /\ Len(inputQueue) = 0
      THEN Append(inputQueue, next)
      ELSE inputQueue

enqueuedNoLengthCheck(code) ==
  LET next == keyDirection(code)
  IN  IF next # Cell(0, 0) /\ ~willReverse(direction, next)
      THEN Append(inputQueue, next)
      ELSE inputQueue

enqueued(code) ==
  LET next == keyDirection(code)
  IN  IF /\ next # Cell(0, 0)
         /\ Len(inputQueue) = 0
         /\ ~willReverse(direction, next)
      THEN Append(inputQueue, next)
      ELSE inputQueue

enqueueDirectionFromKey(code) ==
  /\ UNCHANGED <<snake, direction, food, isPaused, isGameOver,
                 score, highScore, movesPerSecond, centerMsg>>
  /\ inputQueue' = enqueued(code)

togglePauseWhenOver ==
  /\ isPaused' = ~isPaused
  /\ centerMsg' = IF isPaused' THEN "Pause" ELSE HIDDEN
  /\ UNCHANGED <<snake, direction, inputQueue, food, isGameOver,
                 score, highScore, movesPerSecond>>

togglePause ==
  IF isGameOver
  THEN UNCHANGED vars
  ELSE /\ isPaused' = ~isPaused
       /\ centerMsg' = IF isPaused' THEN "Pause" ELSE HIDDEN
       /\ UNCHANGED <<snake, direction, inputQueue, food, isGameOver,
                      score, highScore, movesPerSecond>>

keydown(code) ==
  IF code = "Space" \/ code = "KeyP" THEN togglePause
  ELSE IF code = "KeyR" THEN resetGame
  ELSE enqueueDirectionFromKey(code)

restartClick == resetGame

\* ---- tick ---------------------------------------------------------------
\* the direction in effect after the tick has processed the queued input
consume == IF Len(inputQueue) > 0 THEN Head(inputQueue) ELSE direction

newHeadOf(s, d) == Cell(s[Len(s)].x + d.x, s[Len(s)].y + d.y)

wallCollisionNoLower(c) == c.x >= GRID_CELLS \/ c.y >= GRID_CELLS

wallCollisionOffByOne(c) ==
  c.x < 0 \/ c.x > GRID_CELLS \/ c.y < 0 \/ c.y > GRID_CELLS

wallCollision(c) ==
  c.x < 0 \/ c.x >= GRID_CELLS \/ c.y < 0 \/ c.y >= GRID_CELLS

selfCollisionNever(s, c) == FALSE

selfCollisionSkipTail(s, c) == some(Tail(s), c)

selfCollision(s, c) == some(s, c)

speedForNoFloor(sc) == Min(MAX_SPEED, BASE_SPEED + sc)

speedFor(sc) == Min(MAX_SPEED, BASE_SPEED + (sc \div 4))

\* snake.push(newHead), and snake.shift() unless the head ate
movedAlwaysShift(s, newHead, ate) == Tail(Append(s, newHead))

movedNeverShift(s, newHead, ate) == Append(s, newHead)

moved(s, newHead, ate) ==
  IF ate THEN Append(s, newHead) ELSE Tail(Append(s, newHead))

\* the win condition of tick
boardFullOneEarly(s) == Len(s) >= GRID_CELLS * GRID_CELLS - 1

boardFull(s) == Len(s) >= GRID_CELLS * GRID_CELLS

\* gameOver(), called from tick after the queued input was processed
gameOver ==
  /\ isGameOver' = TRUE
  /\ centerMsg' = "Spillet er over"
  /\ UNCHANGED <<snake, food, isPaused, score, highScore, movesPerSecond>>

\* tick past its first line: the session is neither paused nor over
advance ==
  LET d == consume
      newHead == newHeadOf(snake, d)
      ate == newHead.x = food.x /\ newHead.y = food.y
  IN  /\ direction' = d
      /\ inputQueue' = IF Len(inputQueue) > 0 THEN Tail(inputQueue) ELSE inputQueue
      /\ IF wallCollision(newHead) THEN gameOver
         ELSE IF selfCollision(snake, newHead) THEN gameOver
         ELSE /\ snake' = moved(snake, newHead, ate)
              /\ score' = IF ate THEN score + 1 ELSE score
              /\ highScore' = IF ate THEN setHighScore(score') ELSE highScore
              /\ movesPerSecond' = IF ate THEN speedFor(score') ELSE movesPerSecond
              /\ food' \in (IF ate THEN placeFood(Append(snake, newHead)) ELSE {food})
              /\ isGameOver' = boardFull(snake')
              /\ centerMsg' = IF isGameOver' THEN "Du vant!" ELSE centerMsg
              /\ UNCHANGED isPaused

tickIgnoresPause == IF isGameOver THEN UNCHANGED vars ELSE advance

tickIgnoresOver == IF isPaused THEN UNCHANGED vars ELSE advance

tick == IF isPaused \/ isGameOver THEN UNCHANGED vars ELSE advance

\* the tick would move the head onto the food
wouldEat ==
  LET newHead == newHeadOf(snake, consume)
  IN  /\ ~(isPaused \/ isGameOver)
      /\ ~wallCollision(newHead)
      /\ ~selfCollision(snake, newHead)
      /\ newHead = food

\* the tick the frame loop runs; eating is explored while score < MaxScore
animateTick == (wouldEat => score < MaxScore) /\ tick

\* ---- the same code on the program's grid --------------------------------
\* GRID_CELLS as game.js:13 sets it
FULL_GRID_CELLS == 24

CellsFull ==
  {Cell(cx, cy) : cx \in 0..(FULL_GRID_CELLS - 1), cy \in 0..(FULL_GRID_CELLS - 1)}

startXFullUncentred == (FULL_GRID_CELLS \div 2) - START_LENGTH

startXFull == (FULL_GRID_CELLS \div 2) - (START_LENGTH \div 2)

startYFull == FULL_GRID_CELLS \div 2

startSnakeFull == [i \in 1..START_LENGTH |-> Cell(startXFull + (i - 1), startYFull)]

placeFoodFull(s) ==
  LET taken == {s[i] : i \in 1..Len(s)}
  IN  placeFoodFrom(CellsFull \ taken, CellsFull \cap taken, 0)

startFoodFull == placeFoodFull(startSnakeFull)

resetGameFull ==
  /\ snake' = startSnakeFull
  /\ direction' = Cell(1, 0)
  /\ inputQueue' = <<>>
  /\ isPaused' = FALSE
  /\ isGameOver' = FALSE
  /\ score' = 0
  /\ movesPerSecond' = BASE_SPEED
  /\ food' \in startFoodFull
  /\ centerMsg' = HIDDEN
  /\ UNCHANGED highScore

wallCollisionFull(c) ==
  c.x < 0 \/ c.x >= FULL_GRID_CELLS \/ c.y < 0 \/ c.y >= FULL_GRID_CELLS

advanceFull ==
  LET d == consume
      newHead == newHeadOf(snake, d)
      ate == newHead.x = food.x /\ newHead.y = food.y
  IN  /\ direction' = d
      /\ inputQueue' = IF Len(inputQueue) > 0 THEN Tail(inputQueue) ELSE inputQueue
      /\ IF wallCollisionFull(newHead) THEN gameOver
         ELSE IF selfCollision(snake, newHead) THEN gameOver
         ELSE /\ snake' = moved(snake, newHead, ate)
              /\ score' = IF ate THEN score + 1 ELSE score
              /\ highScore' = IF ate THEN setHighScore(score') ELSE highScore
              /\ movesPerSecond' = IF ate THEN speedFor(score') ELSE movesPerSecond
              /\ food' \in (IF ate THEN placeFoodFull(Append(snake, newHead)) ELSE {food})
              /\ isGameOver' = (Len(snake') >= FULL_GRID_CELLS * FULL_GRID_CELLS)
              /\ centerMsg' = IF isGameOver' THEN "Du vant!" ELSE centerMsg
              /\ UNCHANGED isPaused

tickFull == IF isPaused \/ isGameOver THEN UNCHANGED vars ELSE advanceFull

keydownFull(code) ==
  IF code = "Space" \/ code = "KeyP" THEN togglePause
  ELSE IF code = "KeyR" THEN resetGameFull
  ELSE enqueueDirectionFromKey(code)

\* ---- animate ------------------------------------------------------------
\* One second of time. It is the least common multiple of 6..14, so that
\* 1.0 / movesPerSecond is a whole number of units at every speed; the
\* rounding of the program's floating-point numbers is not modelled.
SECOND == 8 * 9 * 5 * 7 * 11 * 13

\* The elapsed time taken as it is, without the cap.
clampNone(elapsed) == elapsed

\* Math.min(0.1, ...)
clamp(elapsed) == Min(SECOND \div 10, elapsed)

\* 1.0 / movesPerSecond
intervalOf(mps) == SECOND \div mps

\* the module-level initialisers; no frame has run, and stepInterval holds
\* what the first frame will compute
InitDriver ==
  /\ accumulator = 0
  /\ stepInterval = intervalOf(BASE_SPEED)
  /\ inFrame = FALSE

\* animate(ts) up to its loop, ts - lastTime being `elapsed`
animateBegin(elapsed) ==
  /\ ~inFrame
  /\ stepInterval' = intervalOf(movesPerSecond)
  /\ accumulator' = accumulator + clamp(elapsed)
  /\ inFrame' = TRUE
  /\ UNCHANGED vars

\* one evaluation of the loop condition on the program's grid: an iteration
\* when it holds, the rest of animate when it does not
animateLoopFull ==
  /\ inFrame
  /\ IF accumulator >= stepInterval
     THEN /\ accumulator' = accumulator - stepInterval
          /\ tickFull
          /\ UNCHANGED <<stepInterval, inFrame>>
     ELSE /\ inFrame' = FALSE
          /\ UNCHANGED <<vars, accumulator, stepInterval>>

\* ---- the program --------------------------------------------------------
\* bootstrap: the module-level initialisers, then resetGame()
Init ==
  /\ snake = startSnake
  /\ direction = Cell(1, 0)
  /\ inputQueue = <<>>
  /\ isPaused = FALSE
  /\ isGameOver = FALSE
  /\ score = 0
  /\ movesPerSecond = BASE_SPEED
  /\ food \in startFood
  /\ centerMsg = HIDDEN
  /\ highScore \in 0..MaxStoredHighScore
  /\ InitDriver

Next ==
  \/ \E code \in KeyCodes : keydown(code) /\ UNCHANGED driver
  \/ restartClick /\ UNCHANGED driver
  \/ animateTick /\ UNCHANGED driver

Spec == Init /\ [][Next]_allVars

\* ---- the program played greedily ----------------------------------------
\* The same program when every placement draws a cell next to the head and
\* the player steers onto it before the next tick: every tick that moves
\* the snake eats, so that the score climbs as far as the grid allows.
nextToHead(s, c) == \E d \in Directions : newHeadOf(s, d) = c

growTick ==
  /\ isPaused \/ isGameOver \/ wouldEat
       \/ wallCollision(newHeadOf(snake, consume))
       \/ selfCollision(snake, newHeadOf(snake, consume))
  /\ tick
  /\ nextToHead(snake', food')

InitGrow == Init /\ nextToHead(snake, food)

\* the keys of that player: the arrows and restart, never pause
GrowCodes == {"ArrowUp", "ArrowDown", "ArrowLeft", "ArrowRight", "KeyR"}

NextGrow ==
  \/ \E code \in GrowCodes :
       keydown(code) /\ nextToHead(snake', food') /\ UNCHANGED driver
  \/ restartClick /\ nextToHead(snake', food') /\ UNCHANGED driver
  \/ growTick /\ UNCHANGED driver

SpecGrow == InitGrow /\ [][NextGrow]_allVars

\* ---- one game, never restarted -----------------------------------------
\* The program when the restart command is never given. Init draws the
\* stored high score from 0..MaxStoredHighScore, so when that covers
\* 0..MaxScore every state a restart of Spec leads to is an initial state
\* here, and the two specifications reach the same states.
PlayCodes == KeyCodes \ {"KeyR"}

NextPlay ==
  \/ \E code \in PlayCodes : keydown(code) /\ UNCHANGED driver
  \/ animateTick /\ UNCHANGED driver

SpecPlay == Init /\ [][NextPlay]_allVars

\* ---- the program's grid, no direction given -----------------------------
\* The program on its 24 x 24 grid when the player gives no direction and
\* every placement draws a cell of the start row: the snake runs along that
\* row until it meets the wall, eating what lies on its way.
onStartRow(c) == c.y = startYFull

InitFull ==
  /\ snake = startSnakeFull
  /\ direction = Cell(1, 0)
  /\ inputQueue = <<>>
  /\ isPaused = FALSE
  /\ isGameOver = FALSE
  /\ score = 0
  /\ movesPerSecond = BASE_SPEED
  /\ food \in startFoodFull
  /\ onStartRow(food)
  /\ centerMsg = HIDDEN
  /\ highScore \in 0..MaxStoredHighScore
  /\ InitDriver

FullCodes == {"Space", "KeyP", "KeyR"}

NextFull ==
  \/ \E code \in FullCodes :
       keydownFull(code) /\ onStartRow(food') /\ UNCHANGED driver
  \/ tickFull /\ onStartRow(food') /\ UNCHANGED driver

SpecFull == InitFull /\ [][NextFull]_allVars

\* ---- the board filled ---------------------------------------------------
\* The program when the player first walks the start snake up and to the
\* left, away from its row, for as long as its tail is still on a start
\* cell, and from the first food on plays as in SpecGrow: every placement
\* draws a cell next to the head, the player steers onto it and every tick
\* that moves the snake eats, until the board is full.
fillTick ==
  /\ \/ /\ score = 0
        /\ some(startSnake, snake[1])
        /\ consume \in {Cell(0, -1), Cell(-1, 0)}
     \/ isPaused \/ isGameOver \/ wouldEat
     \/ wallCollision(newHeadOf(snake, consume))
     \/ selfCollision(snake, newHeadOf(snake, consume))
  /\ tick
  /\ score' > 0 => nextToHead(snake', food')

FillCodes == {"ArrowUp", "ArrowDown", "ArrowLeft", "ArrowRight", "Space"}

\* the pause key before the first food and after the end of the game, or
\* a key that leaves the snake steered up, left or onto the food
fillKey(code) ==
  /\ keydown(code)
  /\ \/ code = "Space" /\ (score = 0 \/ isGameOver)
     \/ /\ inputQueue' # <<>>
        /\ \/ newHeadOf(snake, Head(inputQueue')) = food
           \/ score = 0 /\ Head(inputQueue') \in {Cell(0, -1), Cell(-1, 0)}

\* the restart button, pressed after a win only
fillRestart == centerMsg = "Du vant!" /\ restartClick

NextFill ==
  \/ \E code \in FillCodes : fillKey(code) /\ UNCHANGED driver
  \/ fillRestart /\ UNCHANGED driver
  \/ fillTick /\ UNCHANGED driver

SpecFill == Init /\ [][NextFill]_allVars

\* ---- the program driven by its frames ------------------------------------
\* The program on its 24 x 24 grid with animate as the only source of
\* ticks, for a player who runs straight at the food: every placement draws
\* the cell ahead of the head when that cell is free, and a cell next to
\* the head when it is not; the player gives the direction toward the food,
\* pauses and resumes while the game still runs at its base speed, and
\* restarts a game that has ended at the wall the start row leads to. The
\* snake runs along its row to the wall and then along the walls, eating
\* at every tick, so that the speed climbs from 6 to 14.
onRoute(s, d, c) ==
  /\ nextToHead(s, c)
  /\ LET ahead == newHeadOf(s, d)
     IN  c # ahead => wallCollisionFull(ahead) \/ selfCollision(s, ahead)

\* ts - lastTime of a frame: a 60 Hz frame and a frame a quarter of a
\* second late
FrameDeltas == {SECOND \div 60, SECOND \div 4}

DriveCodes == {"ArrowUp", "ArrowDown", "ArrowLeft", "ArrowRight", "Space", "KeyR"}

\* the listeners run between frames, never inside animate
driveKey(code) ==
  /\ ~inFrame
  /\ keydownFull(code)
  /\ IF code = "Space" THEN movesPerSecond = BASE_SPEED
     ELSE IF code = "KeyR"
          THEN /\ isGameOver
               /\ snake[Len(snake)].y = startYFull
               /\ onRoute(snake', direction', food')
     ELSE inputQueue' # <<>> /\ newHeadOf(snake, Head(inputQueue')) = food

driveFrame ==
  /\ score < MaxDriveScore
  /\ \E elapsed \in FrameDeltas : animateBegin(elapsed)

driveLoop ==
  /\ animateLoopFull
  /\ food' # food => onRoute(snake', direction', food')

\* the stored high score is one this play does not reach
InitDrive ==
  /\ snake = startSnakeFull
  /\ direction = Cell(1, 0)
  /\ inputQueue = <<>>
  /\ isPaused = FALSE
  /\ isGameOver = FALSE
  /\ score = 0
  /\ movesPerSecond = BASE_SPEED
  /\ food \in startFoodFull
  /\ onRoute(snake, direction, food)
  /\ centerMsg = HIDDEN
  /\ highScore = MaxDriveScore + 2
  /\ InitDriver

NextDrive ==
  \/ \E code \in DriveCodes : driveKey(code) /\ UNCHANGED driver
  \/ driveFrame
  \/ driveLoop

SpecDrive == InitDrive /\ [][NextDrive]_allVars

\* ---- properties ---------------------------------------------------------
Running == ~isPaused /\ ~isGameOver

InGrid(c) == c.x \in 0..(GRID_CELLS - 1) /\ c.y \in 0..(GRID_CELLS - 1)

Opposite(a, b) == a.x = -b.x /\ a.y = -b.y

OnSnake(s, c) == \E i \in 1..Len(s) : s[i] = c

headCell == snake[Len(snake)]

\* the cell a tick taken now would move the head to
nextHead == newHeadOf(snake, consume)

DirectionCodes == {"ArrowUp", "KeyW", "ArrowDown", "KeyS", "ArrowLeft",
                   "KeyA", "ArrowRight", "KeyD"}

\* C1: in every reachable state every cell of the snake has both
\* coordinates in [0, GRID_CELLS).
C1_SnakeInGrid == \A i \in 1..Len(snake) : InGrid(snake[i])

\* the snake has moved up to the top row and along it into the corner
C1_Witness ==
  /\ snake # startSnake
  /\ headCell = Cell(0, 0)
  /\ ~isGameOver

\* C2: while the session is Running or Paused the cells of the snake are
\* pairwise distinct.
C2_SnakeDistinct ==
  ~isGameOver =>
    \A i, j \in 1..Len(snake) : i # j => snake[i] # snake[j]

\* a grown snake curled so that its head is next to its own body
C2_Witness ==
  /\ ~isGameOver
  /\ Len(snake) > START_LENGTH
  /\ \E i \in 2..(Len(snake) - 2) :
       \E d \in Directions : newHeadOf(snake, d) = snake[i]

\* C3: immediately after every food placement (game start, restart, a tick
\* in which the head moves onto the food) the food is on no cell of the
\* snake as it is then, the new head included.
C3_FoodOffSnake ==
  /\ ~OnSnake(snake, food)
  /\ [][(resetGame \/ (tick /\ score' = score + 1))
          => ~OnSnake(snake', food')]_vars

\* the direction the next tick would make active if the buffer held q
consumed(q) == IF Len(q) > 0 THEN Head(q) ELSE direction

\* C4 as claimed: a tick never reverses the active direction, and a
\* direction D submitted while -D is active leaves the buffer empty and the
\* active direction as it was after the next consume.
C4_ReverseLeavesBufferEmpty ==
  /\ [](\A code \in DirectionCodes :
          Opposite(direction, keyDirection(code)) =>
            /\ enqueued(code) = <<>>
            /\ consumed(enqueued(code)) = direction)
  /\ [][tick => ~Opposite(direction, direction')]_vars

\* C4 as amended: a tick never reverses the active direction; a direction D
\* submitted while -D is active is dropped, the buffer staying as it was, so
\* that when the buffer was empty it stays empty and the next consume keeps
\* the active direction.
C4_NoReversal ==
  /\ [](\A code \in DirectionCodes :
          Opposite(direction, keyDirection(code)) =>
            /\ enqueued(code) = inputQueue
            /\ inputQueue = <<>> => consumed(enqueued(code)) = direction)
  /\ [][tick => ~Opposite(direction, direction')]_vars

\* a turn was taken and the buffer is empty, so that the key opposite to
\* the new direction is now the one refused
C4_Witness ==
  /\ Running
  /\ direction = Cell(0, -1)
  /\ inputQueue = <<>>
  /\ snake # startSnake

\* C5: the buffer never holds more than one direction; a directional input
\* is stored exactly when the buffer is empty and the input is not the
\* reverse of the active direction, and otherwise nothing changes; a step
\* that changes anything but the buffer is no directional input.
C5_SingleSlot ==
  /\ [](/\ Len(inputQueue) <= 1
        /\ \A code \in DirectionCodes :
             enqueued(code) =
               IF Len(inputQueue) = 0 /\ ~Opposite(direction, keyDirection(code))
               THEN <<keyDirection(code)>>
               ELSE inputQueue)
  /\ [][\/ UNCHANGED <<snake, direction, food, isPaused, isGameOver,
                       score, highScore, movesPerSecond, centerMsg>>
        \/ \A code \in DirectionCodes : ~enqueueDirectionFromKey(code)]_vars

\* a direction is pending while the game moves another way
C5_Witness ==
  /\ Len(inputQueue) = 1
  /\ inputQueue[1] # direction
  /\ snake # startSnake

\* C6: a tick while the session is Paused, GameOver or Won changes nothing.
C6_PausedTickNoOp ==
  [][(tick /\ (isPaused \/ isGameOver)) => UNCHANGED vars]_vars

\* paused in mid-game with a direction pending that a tick would consume
C6_Witness ==
  /\ isPaused
  /\ ~isGameOver
  /\ Len(inputQueue) = 1
  /\ score > 0

\* C7: a Running tick whose new head is outside the grid ends the game and
\* leaves snake, food, score and speed as they were.
C7_WallCollision ==
  [][(tick /\ Running /\ ~InGrid(nextHead)) =>
       /\ isGameOver'
       /\ centerMsg' = "Spillet er over"
       /\ snake' = snake
       /\ food' = food
       /\ score' = score
       /\ movesPerSecond' = movesPerSecond]_vars

\* the game ended with the head at the wall it was heading for
C7_Witness ==
  /\ isGameOver
  /\ centerMsg = "Spillet er over"
  /\ ~InGrid(newHeadOf(snake, direction))
  /\ snake # startSnake

\* C8: a Running tick whose new head is on a cell of the snake as it is
\* before the move, the tail cell included, ends the game with the snake
\* as it was.
C8_SelfCollision ==
  [][(tick /\ Running /\ InGrid(nextHead) /\ OnSnake(snake, nextHead)) =>
       /\ isGameOver'
       /\ centerMsg' = "Spillet er over"
       /\ snake' = snake]_vars

\* the game ended with the head turned onto the tail cell
C8_Witness ==
  /\ isGameOver
  /\ centerMsg = "Spillet er over"
  /\ newHeadOf(snake, direction) = snake[1]

\* C9: a Running tick that collides with nothing appends the new head as
\* the last cell; it keeps the tail when the new head is the food and
\* drops the first cell otherwise.
C9_Move ==
  [][(tick /\ Running /\ InGrid(nextHead) /\ ~OnSnake(snake, nextHead)) =>
       /\ snake'[Len(snake')] = nextHead
       /\ IF nextHead = food
          THEN snake' = Append(snake, nextHead)
          ELSE /\ Len(snake') = Len(snake)
               /\ \A i \in 1..(Len(snake) - 1) : snake'[i] = snake[i + 1]]_vars

\* the snake has grown by one and moved on
C9_Witness ==
  /\ Len(snake) = START_LENGTH + 1
  /\ snake[1] # startSnake[1]
  /\ ~isGameOver

\* C10: a tick in which the head moves onto the food adds exactly 1 to the
\* score and sets the speed to min(14, 6 + floor(score / 4)); only such a
\* tick and a restart change score or speed; so the speed is always
\* min(14, 6 + floor(score / 4)) and lies in 6..14. The speed tick computes
\* is that value, within 6..14, for every score in 0..MaxSpeedScore too.
C10_ScoreSpeed ==
  /\ [](/\ movesPerSecond =
             (IF 6 + (score \div 4) < 14 THEN 6 + (score \div 4) ELSE 14)
        /\ movesPerSecond >= 6
        /\ movesPerSecond <= 14
        /\ \A sc \in 0..MaxSpeedScore :
             /\ speedFor(sc) = (IF 6 + (sc \div 4) < 14 THEN 6 + (sc \div 4) ELSE 14)
             /\ speedFor(sc) >= 6
             /\ speedFor(sc) <= 14)
  /\ [][LET eats == /\ tick
                    /\ Running
                    /\ InGrid(nextHead)
                    /\ ~OnSnake(snake, nextHead)
                    /\ nextHead = food
        IN  /\ eats => score' = score + 1
            /\ (score' # score \/ movesPerSecond' # movesPerSecond)
                 => (eats \/ resetGame)]_vars

\* the eighth food in a row was eaten and the speed has stepped up twice
C10_Witness ==
  /\ score = 8
  /\ movesPerSecond = 8
  /\ Len(snake) = START_LENGTH + 8

\* the cells (x0, y), (x0 + 1, y), ... of a horizontal snake, tail first
row(x0, y, n) == [i \in 1..n |-> Cell(x0 + (i - 1), y)]

\* C11 as claimed: on the 24 x 24 grid the start state, after bootstrap and
\* after every restart, is snake = [(8,12),(9,12),(10,12),(11,12)] with
\* direction (1,0), and one tick from it with no input and no food on
\* (12,12) yields [(9,12),(10,12),(11,12),(12,12)].
C11_StartAsClaimed ==
  /\ snake = row(8, 12, 4) /\ direction = Cell(1, 0)
  /\ [][/\ resetGameFull => (snake' = row(8, 12, 4) /\ direction' = Cell(1, 0))
        /\ (/\ tickFull
            /\ Running
            /\ snake = row(8, 12, 4)
            /\ inputQueue = <<>>
            /\ food # Cell(12, 12)) => snake' = row(9, 12, 4)]_vars

\* C11 as amended: on the 24 x 24 grid the start state, after bootstrap and
\* after every restart, is snake = [(10,12),(11,12),(12,12),(13,12)] with
\* direction (1,0), and one tick from it with no input and no food on
\* (14,12) yields [(11,12),(12,12),(13,12),(14,12)].
C11_StartCentred ==
  /\ snake = row(10, 12, 4) /\ direction = Cell(1, 0)
  /\ [][/\ resetGameFull => (snake' = row(10, 12, 4) /\ direction' = Cell(1, 0))
        /\ (/\ tickFull
            /\ Running
            /\ snake = row(10, 12, 4)
            /\ inputQueue = <<>>
            /\ food # Cell(14, 12)) => snake' = row(11, 12, 4)]_vars

\* one tick after the start, the tail cell (10,12) vacated
C11_Witness ==
  /\ snake = row(11, 12, 4)
  /\ direction = Cell(1, 0)
  /\ score = 0
  /\ ~isGameOver

\* C12: a restart command, in any session state and with any buffered
\* input, results in the initial 4-cell horizontal snake, direction (1,0),
\* an empty input buffer, score 0, speed 6, a Running session, and a
\* freshly placed food that is on no cell of the snake.
C12_Restart ==
  [][resetGame =>
       /\ snake' = row(startX, startY, 4)
       /\ direction' = Cell(1, 0)
       /\ inputQueue' = <<>>
       /\ score' = 0
       /\ movesPerSecond' = 6
       /\ ~isPaused' /\ ~isGameOver'
       /\ food' \in Cells
       /\ ~OnSnake(snake', food')]_vars

\* C13: the pause toggle turns Running into Paused and Paused into Running
\* and leaves snake, direction, buffer, food, score, high score and speed
\* as they were; in GameOver or Won it changes nothing; and nothing but the
\* toggle changes the pause flag while the game is not restarted.
C13_PauseToggle ==
  [][/\ togglePause =>
          IF isGameOver
          THEN UNCHANGED vars
          ELSE /\ isPaused' = ~isPaused
               /\ ~isGameOver'
               /\ UNCHANGED <<snake, direction, inputQueue, food,
                              score, highScore, movesPerSecond>>
     /\ isGameOver => isPaused' = isPaused
     /\ isPaused' # isPaused => togglePause]_vars

\* paused in mid-game, the overlay showing it
C13_Witness ==
  /\ isPaused
  /\ ~isGameOver
  /\ centerMsg = "Pause"
  /\ snake # startSnake
  /\ inputQueue = <<>>

\* C14: once the session is GameOver or Won it stays so, with snake, food
\* and score as they were, under every tick, direction input and pause
\* toggle; only a restart leaves the terminal state.
C14_TerminalFrozen ==
  [][isGameOver =>
       \/ /\ isGameOver'
          /\ centerMsg' = centerMsg
          /\ snake' = snake
          /\ food' = food
          /\ score' = score
       \/ resetGame]_vars

\* the board was filled and a direction was given after the win
C14_Witness ==
  /\ isGameOver
  /\ centerMsg = "Du vant!"
  /\ Len(inputQueue) = 1

\* a tick, taken now, would move the head onto the food
eats ==
  /\ Running
  /\ InGrid(nextHead)
  /\ ~OnSnake(snake, nextHead)
  /\ nextHead = food

\* C15: the high score never decreases under any step; after a tick in
\* which food is eaten it is the larger of what it was and the new score;
\* and it is at least the score in every reachable state.
C15_HighScore ==
  /\ [](highScore >= score)
  /\ [][/\ highScore' >= highScore
        /\ (tick /\ eats) =>
             highScore' = (IF highScore >= score' THEN highScore ELSE score')]_vars

\* a food eaten in the game after a win: the high score of the won game
\* stands
C15_Witness ==
  /\ score = 1
  /\ highScore = GRID_CELLS * GRID_CELLS - START_LENGTH
  /\ ~isGameOver

\* C16: a tick after which the snake has GRID_CELLS squared cells makes the
\* session Won; Won is entered by no other step and only with the board
\* full; a tick that hits the wall or the snake yields GameOver, never Won,
\* and a tick that fills the board yields Won, never GameOver.
C16_Won ==
  /\ [](centerMsg = "Du vant!" =>
          isGameOver /\ Len(snake) = GRID_CELLS * GRID_CELLS)
  /\ [][/\ (tick /\ Running /\ Len(snake') = GRID_CELLS * GRID_CELLS) =>
             isGameOver' /\ centerMsg' = "Du vant!"
        /\ (centerMsg' = "Du vant!" /\ centerMsg # "Du vant!") =>
             /\ tick /\ eats
             /\ Len(snake) = GRID_CELLS * GRID_CELLS - 1
             /\ Len(snake') = GRID_CELLS * GRID_CELLS
        /\ (tick /\ Running /\ (~InGrid(nextHead) \/ OnSnake(snake, nextHead))) =>
             /\ isGameOver' /\ centerMsg' = "Spillet er over"
             /\ Len(snake') < GRID_CELLS * GRID_CELLS]_vars

\* the last free cell was eaten
C16_Witness ==
  /\ isGameOver
  /\ centerMsg = "Du vant!"
  /\ Len(snake) = GRID_CELLS * GRID_CELLS
  /\ score = GRID_CELLS * GRID_CELLS - START_LENGTH
  /\ inputQueue = <<>>

\* C17: every evaluation of the loop condition of a frame compares the
\* accumulator with 1/Speed for the speed in effect at that evaluation, an
\* iteration subtracting that 1/Speed; so between frames the accumulator is
\* below 1/Speed for the current speed, also when a tick inside the frame
\* changed the speed.
C17_StepPerIteration ==
  /\ [](~inFrame => accumulator < SECOND \div movesPerSecond)
  /\ [][animateLoopFull =>
          IF inFrame'
          THEN /\ accumulator >= SECOND \div movesPerSecond
               /\ accumulator' = accumulator - SECOND \div movesPerSecond
          ELSE accumulator < SECOND \div movesPerSecond]_allVars

\* C18: a placement whose draws all land on the snake, up to the retry cap,
\* leaves the food where it was before the call. (A placement ends on a
\* cell of the snake only when the cap is exhausted.)
C18_ExhaustKeepsFood ==
  [][((resetGame \/ (tick /\ eats)) /\ OnSnake(snake', food'))
       => food' = food]_vars

\* C19: the snake has START_LENGTH + score cells in every reachable state;
\* a tick that eats adds one to both, a restart resets both, and no other
\* step changes either.
C19_LengthScore ==
  /\ [](Len(snake) = START_LENGTH + score)
  /\ [][/\ (tick /\ eats) =>
             Len(snake') = Len(snake) + 1 /\ score' = score + 1
        /\ resetGame => Len(snake') = START_LENGTH /\ score' = 0
        /\ (Len(snake') # Len(snake) \/ score' # score) =>
             (tick /\ eats) \/ resetGame]_vars

\* a snake that walked off its start row and then ate three times
C19_Witness ==
  /\ score = 3
  /\ Len(snake) = START_LENGTH + 3
  /\ snake[1] # startSnake[1]
  /\ ~isGameOver

\* C20: a frame adds at most 0.1 s to an accumulator that is below the step
\* interval of the frame before, so that under any frame deltas, pauses,
\* restarts and speed changes the accumulator a frame starts its loop with
\* is below three step intervals: no frame runs more than 2 ticks.
C20_TwoTicksPerFrame ==
  /\ [](~inFrame => accumulator < stepInterval)
  /\ [][(~inFrame /\ inFrame') =>
          /\ accumulator' - accumulator <= SECOND \div 10
          /\ stepInterval' = SECOND \div movesPerSecond
          /\ accumulator' < 3 * stepInterval']_allVars

\* a frame of a running game that is about to run two ticks
C20_Witness ==
  /\ inFrame
  /\ Running
  /\ accumulator >= 2 * stepInterval

====
